---- MODULE Spec2Model ----
(***************************************************************************)
(* Authorization and status state machines of the B2B ordering backend:    *)
(* links, orders, order items, complaints and products, with the request   *)
(* handlers of app/api/routers/orders.py, app/modules/link/router.py,      *)
(* app/modules/complaint/router.py and app/modules/product/router.py.      *)
(* Money is counted in hundredths of a tenge (Numeric(10, 2) columns).     *)
(***************************************************************************)
EXTENDS Integers, Sequences, FiniteSets, TLC

VARIABLES
    users,       \* users.role: user id -> role
    suppliers,   \* suppliers: supplier id -> owning user_id
    consumers,   \* consumers: consumer id -> user_id
    staff,       \* supplier_staff rows [user_id, supplier_id, staff_role]
    products,    \* products: product id -> [supplier_id, price_kzt, is_active]
    links,       \* links rows, index = id: [consumer_id, supplier_id, status]
    orders,      \* orders rows, index = id, with their order_items
    complaints,  \* complaints rows, index = id
    resp,        \* the request handled last and its outcome
    reqs         \* status updates that validated and have not committed yet

vars == <<users, suppliers, consumers, staff, products, links, orders,
          complaints, resp, reqs>>

directory == <<users, suppliers, consumers>>

(***************************************************************************)
(* Bounds of the model.                                                    *)
(***************************************************************************)
MaxOrders == 1
MaxComplaints == 1
MaxItems == 2
MaxQty == 2
MaxStaffDeletes == 1
MaxInFlight == 2

Null == "<null>"

(***************************************************************************)
(* Enumerations                                                            *)
(***************************************************************************)
Role == {"admin", "consumer", "supplier_owner", "supplier_manager", "supplier_sales"}

LinkStatus == {"pending", "accepted", "denied", "blocked"}

OrderStatus == {"pending", "accepted", "rejected", "in_progress", "completed"}

ComplaintStatus == {"open", "escalated", "resolved"}

(***************************************************************************)
(* The three transition tables and their validators.  A validator raises   *)
(* HTTP 400 "Cannot transition" (InvalidTransition) unless the target is   *)
(* in the set the table gives for the current status.                      *)
(***************************************************************************)
\* Variant: a blocked link may be accepted again.
LinkTransitionsWithUnblock(current_status) ==
    CASE current_status = "pending"  -> {"accepted", "denied"}
      [] current_status = "accepted" -> {"blocked"}
      [] current_status = "denied"   -> {"pending"}
      [] current_status = "blocked"  -> {"accepted"}
      [] OTHER -> {}

LinkTransitions(current_status) ==
    CASE current_status = "pending"  -> {"accepted", "denied"}
      [] current_status = "accepted" -> {"blocked"}
      [] current_status = "denied"   -> {"pending"}
      [] current_status = "blocked"  -> {}
      [] OTHER -> {}

\* Variant: an accepted order may be completed at once.
OrderTransitionsWithShortcut(current_status) ==
    CASE current_status = "pending"     -> {"accepted", "rejected"}
      [] current_status = "accepted"    -> {"in_progress", "completed"}
      [] current_status = "in_progress" -> {"completed"}
      [] current_status = "rejected"    -> {}
      [] current_status = "completed"   -> {}
      [] OTHER -> {}

\* Variant: a rejected order may be reopened.
OrderTransitionsWithReopen(current_status) ==
    CASE current_status = "pending"     -> {"accepted", "rejected"}
      [] current_status = "accepted"    -> {"in_progress"}
      [] current_status = "in_progress" -> {"completed"}
      [] current_status = "rejected"    -> {"pending"}
      [] current_status = "completed"   -> {}
      [] OTHER -> {}

OrderTransitions(current_status) ==
    CASE current_status = "pending"     -> {"accepted", "rejected"}
      [] current_status = "accepted"    -> {"in_progress"}
      [] current_status = "in_progress" -> {"completed"}
      [] current_status = "rejected"    -> {}
      [] current_status = "completed"   -> {}
      [] OTHER -> {}

ComplaintTransitions(current_status) ==
    CASE current_status = "open"      -> {"escalated", "resolved"}
      [] current_status = "escalated" -> {"resolved"}
      [] current_status = "resolved"  -> {}
      [] OTHER -> {}

LinkValidateStatusTransition(current_status, new_status) ==
    IF new_status \notin LinkTransitions(current_status)
    THEN "InvalidTransition" ELSE "ok"

OrderValidateStatusTransition(current_status, new_status) ==
    IF new_status \notin OrderTransitions(current_status)
    THEN "InvalidTransition" ELSE "ok"

ComplaintValidateStatusTransition(current_status, new_status) ==
    IF new_status \notin ComplaintTransitions(current_status)
    THEN "InvalidTransition" ELSE "ok"

(***************************************************************************)
(* The directory the requests run against: the users, supplier, staff,     *)
(* consumer and products of scripts/seed.py, and beside them a second      *)
(* consumer, a second supplier with its owner and manager (who is also     *)
(* sales staff of the first supplier), and an admin.                       *)
(***************************************************************************)
WorldUsers ==
    (1 :> "consumer") @@ (2 :> "consumer") @@ (3 :> "supplier_owner") @@
    (4 :> "supplier_manager") @@ (5 :> "supplier_sales") @@
    (6 :> "supplier_owner") @@ (7 :> "supplier_manager") @@ (8 :> "admin")

WorldSuppliers == (1 :> 3) @@ (2 :> 6)

WorldConsumers == (1 :> 1) @@ (2 :> 2)

StaffRow(user_id, supplier_id, staff_role) ==
    [user_id |-> user_id, supplier_id |-> supplier_id, staff_role |-> staff_role]

WorldStaff ==
    {StaffRow(4, 1, "manager"), StaffRow(5, 1, "sales"),
     StaffRow(7, 2, "manager"), StaffRow(7, 1, "sales")}

\* Prices a product update sets: the seeded price of the first product and
\* the price of the ProductUpdate example.
PriceValues == {1500000, 1600000}

ProductRow(supplier_id, price_kzt, is_active, stock_qty) ==
    [supplier_id |-> supplier_id, price_kzt |-> price_kzt, is_active |-> is_active,
     stock_qty |-> stock_qty]

WorldProducts ==
    (1 :> ProductRow(1, 1500000, TRUE, 100)) @@
    (2 :> ProductRow(1, 1000000, TRUE, 250)) @@
    (3 :> ProductRow(2, 750000, TRUE, 500))

(***************************************************************************)
(* Lookups of app/api/helpers.py.  scalar_one_or_none() gives the row,     *)
(* None when there is none, and raises MultipleResultsFound (HTTP 500)     *)
(* when there are several.                                                 *)
(***************************************************************************)
ScalarOneOrNone(rows) ==
    IF rows = {} THEN "none"
    ELSE IF Cardinality(rows) = 1 THEN "one"
    ELSE "several"

TheRow(rows) == CHOOSE r \in rows : TRUE

GetConsumerByUserId(user_id) ==
    {c \in DOMAIN consumers : consumers[c] = user_id}

GetSupplierByUserId(user_id) ==
    {s \in DOMAIN suppliers : suppliers[s] = user_id}

\* Variant: the staff query does not filter on the supplier.
ManagerStaffRowsOfAnySupplier(user_id, supplier_id) ==
    {r \in staff : /\ r.user_id = user_id
                   /\ r.staff_role \in {"manager", "owner"}}

ManagerStaffRows(user_id, supplier_id) ==
    {r \in staff : /\ r.user_id = user_id
                   /\ r.supplier_id = supplier_id
                   /\ r.staff_role \in {"manager", "owner"}}

\* Variant: the staff rows are consulted before the Supplier row.
IsSupplierOwnerOrManagerStaffFirst(user, supplier_id) ==
    LET supplier == GetSupplierByUserId(user) IN
    IF users[user] = "supplier_manager"
       /\ ScalarOneOrNone(ManagerStaffRows(user, supplier_id)) = "several"
    THEN "several"
    ELSE IF users[user] = "supplier_manager"
            /\ ScalarOneOrNone(ManagerStaffRows(user, supplier_id)) = "one"
    THEN "yes"
    ELSE IF ScalarOneOrNone(supplier) = "several" THEN "several"
    ELSE IF ScalarOneOrNone(supplier) = "one" /\ TheRow(supplier) = supplier_id
    THEN "yes"
    ELSE "no"

\* "yes", "no", or "several" when a lookup raises MultipleResultsFound.
IsSupplierOwnerOrManager(user, supplier_id) ==
    LET supplier == GetSupplierByUserId(user) IN
    IF ScalarOneOrNone(supplier) = "several" THEN "several"
    ELSE IF ScalarOneOrNone(supplier) = "one" /\ TheRow(supplier) = supplier_id
    THEN "yes"
    ELSE IF users[user] = "supplier_manager"
    THEN CASE ScalarOneOrNone(ManagerStaffRows(user, supplier_id)) = "several"
                -> "several"
           [] ScalarOneOrNone(ManagerStaffRows(user, supplier_id)) = "one"
                -> "yes"
           [] OTHER -> "no"
    ELSE "no"

(***************************************************************************)
(* Responses.  kind is "ok" or the error kind of the HTTPException raised: *)
(* 403 PermissionDenied, 404 NotFound, 409 Conflict, 422 and the 400s of   *)
(* create_order and create_complaint ValidationError, 400 "Cannot          *)
(* transition" InvalidTransition, 400 "Resolution text is required"        *)
(* MissingRequiredField, 500 InternalError.                                *)
(***************************************************************************)
Response(op, user, id, body, kind) ==
    [op |-> op, user |-> user, id |-> id, body |-> body, kind |-> kind]

NoResponse == Response("none", 0, 0, <<>>, "ok")

\* No request is being handled: the last response went out and its session
\* closed (get_db), and no status update is waiting to commit.
Idle == resp = NoResponse /\ reqs = {}

CloseSession ==
    /\ resp # NoResponse
    /\ resp' = NoResponse
    /\ UNCHANGED <<directory, staff, products, links, orders, complaints, reqs>>

(***************************************************************************)
(* PATCH /orders/{order_id}/status                                         *)
(***************************************************************************)
UpdateOrderStatusOutcome(user, order_id, new_status) ==
    IF users[user] \notin {"supplier_owner", "supplier_manager"}
    THEN "PermissionDenied"
    ELSE IF order_id \notin DOMAIN orders THEN "NotFound"
    ELSE CASE IsSupplierOwnerOrManager(user, orders[order_id].supplier_id) = "several"
                -> "InternalError"
           [] IsSupplierOwnerOrManager(user, orders[order_id].supplier_id) = "no"
                -> "PermissionDenied"
           [] OTHER
                -> OrderValidateStatusTransition(orders[order_id].status, new_status)

WriteOrderStatus(order_id, new_status) ==
    [orders EXCEPT ![order_id].status = new_status]

UpdateOrderStatus(user, order_id, new_status) ==
    LET kind == UpdateOrderStatusOutcome(user, order_id, new_status) IN
    /\ Idle
    /\ orders' = IF kind = "ok" THEN WriteOrderStatus(order_id, new_status)
                 ELSE orders
    /\ resp' = Response("update_order_status", user, order_id,
                        [status |-> new_status], kind)
    /\ UNCHANGED <<directory, staff, products, links, complaints, reqs>>

(***************************************************************************)
(* PATCH /links/{link_id}/status                                           *)
(***************************************************************************)
UpdateLinkStatusOutcome(user, link_id, new_status) ==
    IF users[user] \notin {"supplier_owner", "supplier_manager"}
    THEN "PermissionDenied"
    ELSE IF link_id \notin DOMAIN links THEN "NotFound"
    ELSE CASE IsSupplierOwnerOrManager(user, links[link_id].supplier_id) = "several"
                -> "InternalError"
           [] IsSupplierOwnerOrManager(user, links[link_id].supplier_id) = "no"
                -> "PermissionDenied"
           [] OTHER
                -> LinkValidateStatusTransition(links[link_id].status, new_status)

WriteLinkStatus(link_id, new_status) ==
    [links EXCEPT ![link_id].status = new_status]

UpdateLinkStatus(user, link_id, new_status) ==
    LET kind == UpdateLinkStatusOutcome(user, link_id, new_status) IN
    /\ Idle
    /\ links' = IF kind = "ok" THEN WriteLinkStatus(link_id, new_status)
                ELSE links
    /\ resp' = Response("update_link_status", user, link_id,
                        [status |-> new_status], kind)
    /\ UNCHANGED <<directory, staff, products, orders, complaints, reqs>>

(***************************************************************************)
(* PATCH /complaints/{complaint_id}/status                                 *)
(***************************************************************************)
\* Variant: `status_update.resolution is None`.
NoResolutionIsNone(resolution) == resolution = Null

\* `not status_update.resolution`: None and the empty string are both falsy.
NoResolution(resolution) == resolution = Null \/ resolution = ""

\* Variant: a complaint can be resolved without resolution text.
UpdateComplaintStatusOutcomeUnchecked(user, complaint_id, new_status, resolution) ==
    IF users[user] \notin {"supplier_owner", "supplier_manager", "supplier_sales"}
    THEN "PermissionDenied"
    ELSE IF complaint_id \notin DOMAIN complaints THEN "NotFound"
    ELSE IF ~ (\/ complaints[complaint_id].sales_rep_id = user
               \/ complaints[complaint_id].manager_id = user)
    THEN "PermissionDenied"
    ELSE IF ComplaintValidateStatusTransition(
                complaints[complaint_id].status, new_status) # "ok"
    THEN "InvalidTransition"
    ELSE "ok"

\* Variant: the resolution text is required before the edge is looked up.
UpdateComplaintStatusOutcomeResolutionFirst(user, complaint_id, new_status, resolution) ==
    IF users[user] \notin {"supplier_owner", "supplier_manager", "supplier_sales"}
    THEN "PermissionDenied"
    ELSE IF complaint_id \notin DOMAIN complaints THEN "NotFound"
    ELSE IF ~ (\/ complaints[complaint_id].sales_rep_id = user
               \/ complaints[complaint_id].manager_id = user)
    THEN "PermissionDenied"
    ELSE IF new_status = "resolved" /\ NoResolution(resolution)
    THEN "MissingRequiredField"
    ELSE IF ComplaintValidateStatusTransition(
                complaints[complaint_id].status, new_status) # "ok"
    THEN "InvalidTransition"
    ELSE "ok"

UpdateComplaintStatusOutcome(user, complaint_id, new_status, resolution) ==
    IF users[user] \notin {"supplier_owner", "supplier_manager", "supplier_sales"}
    THEN "PermissionDenied"
    ELSE IF complaint_id \notin DOMAIN complaints THEN "NotFound"
    ELSE IF ~ (\/ complaints[complaint_id].sales_rep_id = user
               \/ complaints[complaint_id].manager_id = user)
    THEN "PermissionDenied"
    ELSE IF ComplaintValidateStatusTransition(
                complaints[complaint_id].status, new_status) # "ok"
    THEN "InvalidTransition"
    ELSE IF new_status = "resolved" /\ NoResolution(resolution)
    THEN "MissingRequiredField"
    ELSE "ok"

\* Variant: complaint.resolution is assigned whether or not text is given.
WriteComplaintStatusAndResolution(complaint_id, new_status, resolution) ==
    [complaints EXCEPT
        ![complaint_id].status = new_status,
        ![complaint_id].resolution = resolution]

WriteComplaintStatus(complaint_id, new_status, resolution) ==
    [complaints EXCEPT
        ![complaint_id].status = new_status,
        ![complaint_id].resolution =
            IF NoResolution(resolution) THEN @ ELSE resolution]

UpdateComplaintStatus(user, complaint_id, new_status, resolution) ==
    LET kind == UpdateComplaintStatusOutcome(user, complaint_id, new_status,
                                             resolution) IN
    /\ Idle
    /\ complaints' = IF kind = "ok"
                     THEN WriteComplaintStatus(complaint_id, new_status, resolution)
                     ELSE complaints
    /\ resp' = Response("update_complaint_status", user, complaint_id,
                        [status |-> new_status, resolution |-> resolution], kind)
    /\ UNCHANGED <<directory, staff, products, links, orders, reqs>>

(***************************************************************************)
(* POST /links/requests                                                    *)
(***************************************************************************)
LinkRows(consumer_id, supplier_id) ==
    {l \in DOMAIN links : /\ links[l].consumer_id = consumer_id
                          /\ links[l].supplier_id = supplier_id}

CreateLinkRequestOutcome(user, supplier_id) ==
    IF users[user] # "consumer" THEN "PermissionDenied"
    ELSE IF ScalarOneOrNone(GetConsumerByUserId(user)) = "several"
    THEN "InternalError"
    ELSE IF ScalarOneOrNone(GetConsumerByUserId(user)) = "none" THEN "NotFound"
    ELSE IF supplier_id \notin DOMAIN suppliers THEN "NotFound"
    ELSE CASE ScalarOneOrNone(LinkRows(TheRow(GetConsumerByUserId(user)),
                                       supplier_id)) = "several"
                -> "InternalError"
           [] ScalarOneOrNone(LinkRows(TheRow(GetConsumerByUserId(user)),
                                       supplier_id)) = "one"
                -> "Conflict"
           [] OTHER -> "ok"

NewLink(consumer_id, supplier_id) ==
    [consumer_id |-> consumer_id, supplier_id |-> supplier_id,
     status |-> "pending"]

CreateLinkRequest(user, supplier_id) ==
    LET kind == CreateLinkRequestOutcome(user, supplier_id) IN
    /\ Idle
    /\ links' = IF kind = "ok"
                THEN Append(links, NewLink(TheRow(GetConsumerByUserId(user)),
                                           supplier_id))
                ELSE links
    /\ resp' = Response("create_link_request", user, 0,
                        [supplier_id |-> supplier_id], kind)
    /\ UNCHANGED <<directory, staff, products, orders, complaints, reqs>>

(***************************************************************************)
(* POST /orders                                                            *)
(***************************************************************************)
\* OrderCreate / OrderItemCreate: items has min_length 1, every qty is > 0;
\* the body is validated (HTTP 422) before the handler runs.
OrderCreateValid(items) ==
    /\ Len(items) >= 1
    /\ \A i \in 1..Len(items) : items[i].qty > 0

\* Variant: the link query does not filter on the status.
AcceptedLinkRowsOfAnyStatus(consumer_id, supplier_id) ==
    LinkRows(consumer_id, supplier_id)

AcceptedLinkRows(consumer_id, supplier_id) ==
    {l \in LinkRows(consumer_id, supplier_id) : links[l].status = "accepted"}

\* The loop over order_data.items raises at the first item that fails.
RECURSIVE ItemsOutcome(_, _, _)
ItemsOutcome(supplier_id, items, i) ==
    IF i > Len(items) THEN "ok"
    ELSE IF items[i].qty <= 0 THEN "ValidationError"
    ELSE IF items[i].product_id \notin DOMAIN products THEN "NotFound"
    ELSE IF products[items[i].product_id].supplier_id # supplier_id
    THEN "ValidationError"
    ELSE IF ~ products[items[i].product_id].is_active THEN "ValidationError"
    ELSE ItemsOutcome(supplier_id, items, i + 1)

\* Variant: total = product.price_kzt * item_data.qty (the sum is overwritten).
RECURSIVE OrderTotalOfLastItem(_, _, _)
OrderTotalOfLastItem(items, i, total) ==
    IF i > Len(items) THEN total
    ELSE OrderTotalOfLastItem(items, i + 1,
            products[items[i].product_id].price_kzt * items[i].qty)

\* total = 0; for each item: total += product.price_kzt * item_data.qty
RECURSIVE OrderTotal(_, _, _)
OrderTotal(items, i, total) ==
    IF i > Len(items) THEN total
    ELSE OrderTotal(items, i + 1,
                    total + products[items[i].product_id].price_kzt * items[i].qty)

OrderItemRow(item_data) ==
    [product_id |-> item_data.product_id,
     qty |-> item_data.qty,
     unit_price_kzt |-> products[item_data.product_id].price_kzt]

NewOrder(consumer_id, supplier_id, items) ==
    [supplier_id |-> supplier_id,
     consumer_id |-> consumer_id,
     status |-> "pending",
     total_kzt |-> OrderTotal(items, 1, 0),
     items |-> [i \in 1..Len(items) |-> OrderItemRow(items[i])]]

CreateOrderOutcome(user, supplier_id, items) ==
    IF ~ OrderCreateValid(items) THEN "ValidationError"
    ELSE IF users[user] # "consumer" THEN "PermissionDenied"
    ELSE IF ScalarOneOrNone(GetConsumerByUserId(user)) = "several"
    THEN "InternalError"
    ELSE IF ScalarOneOrNone(GetConsumerByUserId(user)) = "none" THEN "NotFound"
    ELSE IF supplier_id \notin DOMAIN suppliers THEN "NotFound"
    ELSE CASE ScalarOneOrNone(AcceptedLinkRows(TheRow(GetConsumerByUserId(user)),
                                               supplier_id)) = "several"
                -> "InternalError"
           [] ScalarOneOrNone(AcceptedLinkRows(TheRow(GetConsumerByUserId(user)),
                                               supplier_id)) = "none"
                -> "PermissionDenied"
           [] OTHER -> ItemsOutcome(supplier_id, items, 1)

\* Variant: the order is added and flushed before its items are validated.
CreateOrderFlushedFirst(user, supplier_id, items) ==
    LET kind == CreateOrderOutcome(user, supplier_id, items)
        flushed == /\ kind # "ok"
                   /\ kind = ItemsOutcome(supplier_id, items, 1)
                   /\ OrderCreateValid(items)
                   /\ users[user] = "consumer"
                   /\ GetConsumerByUserId(user) # {}
                   /\ AcceptedLinkRows(TheRow(GetConsumerByUserId(user)),
                                       supplier_id) # {}
    IN
    /\ resp = NoResponse /\ reqs = {}
    /\ (kind = "ok" \/ flushed) => Len(orders) < MaxOrders
    /\ orders' = IF kind = "ok"
                 THEN Append(orders, NewOrder(TheRow(GetConsumerByUserId(user)),
                                              supplier_id, items))
                 ELSE IF flushed
                 THEN Append(orders, NewOrder(TheRow(GetConsumerByUserId(user)),
                                              supplier_id, <<>>))
                 ELSE orders
    /\ resp' = Response("create_order", user, 0,
                        [supplier_id |-> supplier_id, items |-> items], kind)
    /\ UNCHANGED <<users, suppliers, consumers, staff, products, links,
                   complaints, reqs>>

\* The rows of the order_items table.
RECURSIVE OrderItemsStored(_)
OrderItemsStored(n) ==
    IF n = 0 THEN 0 ELSE OrderItemsStored(n - 1) + Len(orders[n].items)

CreateOrder(user, supplier_id, items) ==
    LET kind == CreateOrderOutcome(user, supplier_id, items) IN
    /\ Idle
    /\ kind = "ok" => /\ Len(orders) < MaxOrders
                      /\ OrderItemsStored(Len(orders)) + Len(items) <= MaxItems
    /\ orders' = IF kind = "ok"
                 THEN Append(orders, NewOrder(TheRow(GetConsumerByUserId(user)),
                                              supplier_id, items))
                 ELSE orders
    /\ resp' = Response("create_order", user, 0,
                        [supplier_id |-> supplier_id, items |-> items], kind)
    /\ UNCHANGED <<directory, staff, products, links, complaints, reqs>>

\* Variant: the unit prices and the total are read from the products.
OrderResponseAtCurrentPrices(order_id) ==
    [id |-> order_id,
     supplier_id |-> orders[order_id].supplier_id,
     consumer_id |-> orders[order_id].consumer_id,
     status |-> orders[order_id].status,
     total_kzt |-> OrderTotal(orders[order_id].items, 1, 0),
     items |-> [i \in 1..Len(orders[order_id].items) |->
                    OrderItemRow(orders[order_id].items[i])]]

\* OrderResponse.model_validate(order): the stored columns of the order and
\* of its order_items rows.
OrderResponse(order_id) ==
    [id |-> order_id,
     supplier_id |-> orders[order_id].supplier_id,
     consumer_id |-> orders[order_id].consumer_id,
     status |-> orders[order_id].status,
     total_kzt |-> orders[order_id].total_kzt,
     items |-> orders[order_id].items]

(***************************************************************************)
(* PUT /products/{product_id}: the fields set in the body are written      *)
(* (model_dump(exclude_unset=True)); the body here sets price_kzt,         *)
(* is_active or both, and leaves sku unset.                                *)
(***************************************************************************)
UpdateProductOutcome(user, product_id) ==
    IF users[user] \notin {"supplier_owner", "supplier_manager"}
    THEN "PermissionDenied"
    ELSE IF product_id \notin DOMAIN products THEN "NotFound"
    ELSE CASE IsSupplierOwnerOrManager(user, products[product_id].supplier_id)
                = "several" -> "InternalError"
           [] IsSupplierOwnerOrManager(user, products[product_id].supplier_id)
                = "no" -> "PermissionDenied"
           [] OTHER -> "ok"

WriteProduct(product_id, body) ==
    [products EXCEPT
        ![product_id].price_kzt =
            IF "price_kzt" \in DOMAIN body THEN body.price_kzt ELSE @,
        ![product_id].is_active =
            IF "is_active" \in DOMAIN body THEN body.is_active ELSE @]

UpdateProduct(user, product_id, body) ==
    LET kind == UpdateProductOutcome(user, product_id) IN
    /\ Idle
    /\ products' = IF kind = "ok" THEN WriteProduct(product_id, body)
                   ELSE products
    /\ resp' = Response("update_product", user, product_id, body, kind)
    /\ UNCHANGED <<directory, staff, links, orders, complaints, reqs>>

(***************************************************************************)
(* GET /orders/{order_id} and GET /links/{link_id}                         *)
(***************************************************************************)
\* Variant: the consumer branch does not compare consumer_id.
ViewOutcomeAnyConsumer(user, consumer_id, supplier_id) ==
    IF /\ users[user] = "consumer"
       /\ ScalarOneOrNone(GetConsumerByUserId(user)) = "one"
    THEN "ok"
    ELSE IF users[user] \in {"supplier_owner", "supplier_manager"}
    THEN CASE IsSupplierOwnerOrManager(user, supplier_id) = "several"
                -> "InternalError"
           [] IsSupplierOwnerOrManager(user, supplier_id) = "yes" -> "ok"
           [] OTHER -> "PermissionDenied"
    ELSE "PermissionDenied"

\* The access check the two handlers share: the consumer named on the row,
\* or a supplier_owner / supplier_manager user who passes
\* is_supplier_owner_or_manager for the row's supplier.
ViewOutcome(user, consumer_id, supplier_id) ==
    IF /\ users[user] = "consumer"
       /\ ScalarOneOrNone(GetConsumerByUserId(user)) = "several"
    THEN "InternalError"
    ELSE IF /\ users[user] = "consumer"
            /\ ScalarOneOrNone(GetConsumerByUserId(user)) = "one"
            /\ consumer_id = TheRow(GetConsumerByUserId(user))
    THEN "ok"
    ELSE IF users[user] \in {"supplier_owner", "supplier_manager"}
    THEN CASE IsSupplierOwnerOrManager(user, supplier_id) = "several"
                -> "InternalError"
           [] IsSupplierOwnerOrManager(user, supplier_id) = "yes" -> "ok"
           [] OTHER -> "PermissionDenied"
    ELSE "PermissionDenied"

GetOrderOutcome(user, order_id) ==
    IF order_id \notin DOMAIN orders THEN "NotFound"
    ELSE ViewOutcome(user, orders[order_id].consumer_id,
                     orders[order_id].supplier_id)

GetOrder(user, order_id) ==
    /\ Idle
    /\ resp' = Response("get_order", user, order_id, <<>>,
                        GetOrderOutcome(user, order_id))
    /\ UNCHANGED <<directory, staff, products, links, orders, complaints, reqs>>

GetLinkOutcome(user, link_id) ==
    IF link_id \notin DOMAIN links THEN "NotFound"
    ELSE ViewOutcome(user, links[link_id].consumer_id,
                     links[link_id].supplier_id)

GetLink(user, link_id) ==
    /\ Idle
    /\ resp' = Response("get_link", user, link_id, <<>>,
                        GetLinkOutcome(user, link_id))
    /\ UNCHANGED <<directory, staff, products, links, orders, complaints, reqs>>

(***************************************************************************)
(* GET /orders.  The body is the set of ids of the orders on the page;     *)
(* with the default page 1 and size 20 that is every order the query       *)
(* selects.  status_filter is Null when the query parameter is absent.     *)
(***************************************************************************)
\* The staff rows get_orders looks up for a user without a Supplier row:
\* no supplier_id condition.
ManagerStaffRowsOfUser(user_id) ==
    {r \in staff : /\ r.user_id = user_id
                   /\ r.staff_role \in {"manager", "owner"}}

GetOrdersOutcome(user) ==
    IF users[user] = "consumer"
    THEN CASE ScalarOneOrNone(GetConsumerByUserId(user)) = "several"
                -> "InternalError"
           [] ScalarOneOrNone(GetConsumerByUserId(user)) = "none" -> "NotFound"
           [] OTHER -> "ok"
    ELSE IF users[user] \in {"supplier_owner", "supplier_manager"}
    THEN IF ScalarOneOrNone(GetSupplierByUserId(user)) = "several"
         THEN "InternalError"
         ELSE IF ScalarOneOrNone(GetSupplierByUserId(user)) = "one" THEN "ok"
         ELSE IF ScalarOneOrNone(ManagerStaffRowsOfUser(user)) = "several"
         THEN "InternalError"
         ELSE IF ScalarOneOrNone(ManagerStaffRowsOfUser(user)) = "none"
         THEN "NotFound"
         ELSE "ok"
    ELSE "PermissionDenied"

\* The orders the query selects for a user whose request passed the checks.
OrdersListed(user, status_filter) ==
    {o \in DOMAIN orders :
        /\ IF users[user] = "consumer"
           THEN orders[o].consumer_id = TheRow(GetConsumerByUserId(user))
           ELSE IF GetSupplierByUserId(user) # {}
           THEN orders[o].supplier_id = TheRow(GetSupplierByUserId(user))
           ELSE orders[o].supplier_id
                    = TheRow(ManagerStaffRowsOfUser(user)).supplier_id
        /\ status_filter # Null => orders[o].status = status_filter}

GetOrders(user, status_filter) ==
    LET kind == GetOrdersOutcome(user) IN
    /\ Idle
    /\ resp' = Response("get_orders", user, 0,
                        IF kind = "ok" THEN OrdersListed(user, status_filter)
                        ELSE {},
                        kind)
    /\ UNCHANGED <<directory, staff, products, links, orders, complaints, reqs>>

(***************************************************************************)
(* GET /catalog?supplier_id=...  The body is the set of ids of the         *)
(* products on the page; with the default page 1 and size 20 that is every *)
(* product the query selects.                                              *)
(***************************************************************************)
\* Variant: the query has no is_active condition.
CatalogProductsWithInactive(supplier_id) ==
    {p \in DOMAIN products : products[p].supplier_id = supplier_id}

CatalogProducts(supplier_id) ==
    {p \in DOMAIN products : /\ products[p].supplier_id = supplier_id
                             /\ products[p].is_active}

GetCatalogOutcome(user, supplier_id) ==
    IF users[user] # "consumer" THEN "PermissionDenied"
    ELSE IF ScalarOneOrNone(GetConsumerByUserId(user)) = "several"
    THEN "InternalError"
    ELSE IF ScalarOneOrNone(GetConsumerByUserId(user)) = "none" THEN "NotFound"
    ELSE IF supplier_id \notin DOMAIN suppliers THEN "NotFound"
    ELSE CASE ScalarOneOrNone(AcceptedLinkRows(TheRow(GetConsumerByUserId(user)),
                                               supplier_id)) = "several"
                -> "InternalError"
           [] ScalarOneOrNone(AcceptedLinkRows(TheRow(GetConsumerByUserId(user)),
                                               supplier_id)) = "none"
                -> "PermissionDenied"
           [] OTHER -> "ok"

GetCatalog(user, supplier_id) ==
    LET kind == GetCatalogOutcome(user, supplier_id) IN
    /\ Idle
    /\ resp' = Response("get_catalog", user, supplier_id,
                        IF kind = "ok" THEN CatalogProducts(supplier_id) ELSE {},
                        kind)
    /\ UNCHANGED <<directory, staff, products, links, orders, complaints, reqs>>

(***************************************************************************)
(* Complaints: POST /complaints and GET /complaints/{complaint_id}         *)
(***************************************************************************)
\* Variant: the sales rep and the manager need a current supplier_staff row.
CanAccessComplaintAsStaff(user, complaint_id) ==
    \/ /\ GetConsumerByUserId(user) # {}
       /\ complaints[complaint_id].consumer_id = TheRow(GetConsumerByUserId(user))
    \/ /\ user \in {complaints[complaint_id].sales_rep_id,
                    complaints[complaint_id].manager_id}
       /\ \E r \in staff : r.user_id = user

CanAccessComplaint(user, complaint_id) ==
    \/ /\ GetConsumerByUserId(user) # {}
       /\ complaints[complaint_id].consumer_id = TheRow(GetConsumerByUserId(user))
    \/ complaints[complaint_id].sales_rep_id = user
    \/ complaints[complaint_id].manager_id = user

GetComplaintOutcome(user, complaint_id) ==
    IF complaint_id \notin DOMAIN complaints THEN "NotFound"
    ELSE IF ScalarOneOrNone(GetConsumerByUserId(user)) = "several"
    THEN "InternalError"
    ELSE IF CanAccessComplaint(user, complaint_id) THEN "ok"
    ELSE "PermissionDenied"

GetComplaint(user, complaint_id) ==
    /\ Idle
    /\ resp' = Response("get_complaint", user, complaint_id, <<>>,
                        GetComplaintOutcome(user, complaint_id))
    /\ UNCHANGED <<directory, staff, products, links, orders, complaints, reqs>>

StaffRows(user_id, supplier_id) ==
    {r \in staff : r.user_id = user_id /\ r.supplier_id = supplier_id}

CreateComplaintOutcome(user, body) ==
    IF users[user] # "consumer" THEN "PermissionDenied"
    ELSE IF ScalarOneOrNone(GetConsumerByUserId(user)) = "several"
    THEN "InternalError"
    ELSE IF ScalarOneOrNone(GetConsumerByUserId(user)) = "none" THEN "NotFound"
    ELSE IF body.order_id \notin DOMAIN orders THEN "NotFound"
    ELSE IF orders[body.order_id].consumer_id # TheRow(GetConsumerByUserId(user))
    THEN "PermissionDenied"
    ELSE IF body.sales_rep_id \notin DOMAIN users THEN "NotFound"
    ELSE IF body.manager_id \notin DOMAIN users THEN "NotFound"
    ELSE CASE ScalarOneOrNone(StaffRows(body.sales_rep_id,
                                        orders[body.order_id].supplier_id))
                = "several" -> "InternalError"
           [] ScalarOneOrNone(StaffRows(body.sales_rep_id,
                                        orders[body.order_id].supplier_id))
                = "none" -> "ValidationError"
           [] ScalarOneOrNone(ManagerStaffRows(body.manager_id,
                                               orders[body.order_id].supplier_id))
                = "several" -> "InternalError"
           [] ScalarOneOrNone(ManagerStaffRows(body.manager_id,
                                               orders[body.order_id].supplier_id))
                = "none" -> "ValidationError"
           [] OTHER -> "ok"

NewComplaint(consumer_id, body) ==
    [order_id |-> body.order_id,
     consumer_id |-> consumer_id,
     sales_rep_id |-> body.sales_rep_id,
     manager_id |-> body.manager_id,
     status |-> "open",
     resolution |-> Null]

CreateComplaint(user, body) ==
    LET kind == CreateComplaintOutcome(user, body) IN
    /\ Idle
    /\ kind = "ok" => Len(complaints) < MaxComplaints
    /\ complaints' = IF kind = "ok"
                     THEN Append(complaints,
                                 NewComplaint(TheRow(GetConsumerByUserId(user)),
                                              body))
                     ELSE complaints
    /\ resp' = Response("create_complaint", user, 0, body, kind)
    /\ UNCHANGED <<directory, staff, products, links, orders, reqs>>

(***************************************************************************)
(* supplier_staff rows are written outside the API (seeding and            *)
(* administration); a membership can be withdrawn at any time.             *)
(***************************************************************************)
DeleteSupplierStaff(row) ==
    /\ Idle
    /\ row \in staff
    /\ Cardinality(WorldStaff \ staff) < MaxStaffDeletes
    /\ staff' = staff \ {row}
    /\ resp' = Response("delete_supplier_staff", 0, 0, row, "ok")
    /\ UNCHANGED <<directory, products, links, orders, complaints, reqs>>

(***************************************************************************)
(* Status updates handled by concurrent workers.  Every request has its    *)
(* own AsyncSession (get_db): the handler selects the row, runs its checks *)
(* on the status it read, and awaits other queries before it assigns the   *)
(* status and commits.  The commit is an UPDATE ... WHERE id = :id of the  *)
(* status column; the row has no version column and the SELECT takes no    *)
(* lock.  A request in reqs is "validated" between its checks and its      *)
(* commit and "done" once its response is decided.                         *)
(***************************************************************************)
Request(op, user, id, new_status, seen, kind) ==
    [op |-> op, user |-> user, id |-> id, status |-> new_status, seen |-> seen,
     kind |-> kind, pc |-> IF kind = "ok" THEN "validated" ELSE "done"]

BeginUpdateOrderStatus(user, order_id, new_status) ==
    /\ resp = NoResponse
    /\ Cardinality(reqs) < MaxInFlight
    /\ reqs' = reqs \cup
                {Request("update_order_status", user, order_id, new_status,
                         IF order_id \in DOMAIN orders
                         THEN orders[order_id].status ELSE Null,
                         UpdateOrderStatusOutcome(user, order_id, new_status))}
    /\ UNCHANGED <<directory, staff, products, links, orders, complaints, resp>>

CommitUpdateOrderStatus(r) ==
    /\ r \in reqs
    /\ r.op = "update_order_status"
    /\ r.pc = "validated"
    /\ orders' = WriteOrderStatus(r.id, r.status)
    /\ reqs' = (reqs \ {r}) \cup {[r EXCEPT !.pc = "done"]}
    /\ UNCHANGED <<directory, staff, products, links, complaints, resp>>

BeginUpdateLinkStatus(user, link_id, new_status) ==
    /\ resp = NoResponse
    /\ Cardinality(reqs) < MaxInFlight
    /\ reqs' = reqs \cup
                {Request("update_link_status", user, link_id, new_status,
                         IF link_id \in DOMAIN links
                         THEN links[link_id].status ELSE Null,
                         UpdateLinkStatusOutcome(user, link_id, new_status))}
    /\ UNCHANGED <<directory, staff, products, links, orders, complaints, resp>>

CommitUpdateLinkStatus(r) ==
    /\ r \in reqs
    /\ r.op = "update_link_status"
    /\ r.pc = "validated"
    /\ links' = WriteLinkStatus(r.id, r.status)
    /\ reqs' = (reqs \ {r}) \cup {[r EXCEPT !.pc = "done"]}
    /\ UNCHANGED <<directory, staff, products, orders, complaints, resp>>

(***************************************************************************)
(* POST /links/requests handled by concurrent workers: the handler looks   *)
(* for a link of the pair, and later adds the row and commits.  The        *)
(* links table has the unique constraint uq_consumer_supplier, so the      *)
(* INSERT of a second row of a pair raises IntegrityError; the handler     *)
(* does not catch it and no handler for it is registered on the app, so    *)
(* the answer is the 500 of general_exception_handler.  n tells apart      *)
(* the requests of one consumer for one supplier; id is the supplier_id.   *)
(***************************************************************************)
LinkRequest(n, user, supplier_id, kind) ==
    [op |-> "create_link_request", user |-> user, id |-> supplier_id,
     status |-> "pending", seen |-> Null, kind |-> kind,
     pc |-> IF kind = "ok" THEN "validated" ELSE "done", n |-> n]

BeginCreateLinkRequest(n, user, supplier_id) ==
    /\ resp = NoResponse
    /\ Cardinality(reqs) < MaxInFlight
    /\ ~ \E r \in reqs : r.op = "create_link_request" /\ r.n = n
    /\ reqs' = reqs \cup
                {LinkRequest(n, user, supplier_id,
                             CreateLinkRequestOutcome(user, supplier_id))}
    /\ UNCHANGED <<directory, staff, products, links, orders, complaints, resp>>

CommitCreateLinkRequest(r) ==
    /\ r \in reqs
    /\ r.op = "create_link_request"
    /\ r.pc = "validated"
    /\ IF LinkRows(TheRow(GetConsumerByUserId(r.user)), r.id) = {}
       THEN /\ links' = Append(links,
                               NewLink(TheRow(GetConsumerByUserId(r.user)), r.id))
            /\ reqs' = (reqs \ {r}) \cup {[r EXCEPT !.pc = "done"]}
       ELSE /\ links' = links
            /\ reqs' = (reqs \ {r}) \cup
                        {[r EXCEPT !.pc = "done", !.kind = "InternalError"]}
    /\ UNCHANGED <<directory, staff, products, orders, complaints, resp>>

(***************************************************************************)
(* POST /orders handled by concurrent workers: the handler looks for the   *)
(* accepted link, reads the products and builds the order and its items,   *)
(* awaiting a query at every step, and later adds the rows and commits.    *)
(* Nothing locks the link in between.  rows holds the order the handler    *)
(* built, n tells apart equal requests, id is the supplier_id.             *)
(***************************************************************************)
OrderRequest(n, user, supplier_id, items, kind) ==
    [op |-> "create_order", user |-> user, id |-> supplier_id,
     status |-> "pending", seen |-> Null, kind |-> kind,
     pc |-> IF kind = "ok" THEN "validated" ELSE "done", n |-> n,
     rows |-> IF kind = "ok"
              THEN <<NewOrder(TheRow(GetConsumerByUserId(user)), supplier_id,
                              items)>>
              ELSE <<>>]

BeginCreateOrder(n, user, supplier_id, items) ==
    LET kind == CreateOrderOutcome(user, supplier_id, items) IN
    /\ resp = NoResponse
    /\ Cardinality(reqs) < MaxInFlight
    /\ ~ \E r \in reqs : r.op = "create_order" /\ r.n = n
    /\ kind = "ok" =>
            Len(orders) + Cardinality({r \in reqs : /\ r.op = "create_order"
                                                    /\ r.pc = "validated"})
                < MaxOrders
    /\ reqs' = reqs \cup {OrderRequest(n, user, supplier_id, items, kind)}
    /\ UNCHANGED <<directory, staff, products, links, orders, complaints, resp>>

CommitCreateOrder(r) ==
    /\ r \in reqs
    /\ r.op = "create_order"
    /\ r.pc = "validated"
    /\ orders' = Append(orders, r.rows[1])
    /\ reqs' = (reqs \ {r}) \cup {[r EXCEPT !.pc = "done"]}
    /\ UNCHANGED <<directory, staff, products, links, complaints, resp>>

\* The response goes out and the request's session closes.
ReturnResponse(r) ==
    /\ r \in reqs
    /\ r.pc = "done"
    /\ reqs' = reqs \ {r}
    /\ UNCHANGED <<directory, staff, products, links, orders, complaints, resp>>

(***************************************************************************)
(* Requests: callers, path parameters and bodies                           *)
(***************************************************************************)
Callers == DOMAIN users

\* Every id in use and one that names no row.
IdInputs(table) == DOMAIN table \cup {Cardinality(DOMAIN table) + 1}

Item(product_id, qty) == [product_id |-> product_id, qty |-> qty]

\* Order lines: no, one and several units of product 1, one unit of
\* product 2.
ItemInputs ==
    {Item(1, q) : q \in {0, 1, MaxQty}} \cup {Item(2, 1)}

\* Bodies of up to MaxItems of these lines, the empty body included, and
\* bodies of one unit of any product id, the missing one included.
OrderItemsInputs ==
    UNION {[1..n -> ItemInputs] : n \in 0..MaxItems}
    \cup {<<Item(p, 1)>> : p \in IdInputs(products)}

\* Order bodies that fail at each check of create_order, in the first line
\* and after a line that passes, and one that passes when product 1 is
\* active.
FailingOrderInputs ==
    {<<>>, <<Item(1, 0)>>, <<Item(1, 1)>>, <<Item(2, 1), Item(1, 0)>>,
     <<Item(2, 1), Item(1, 1)>>}
    \cup {<<Item(p, 1)>> : p \in IdInputs(products)}
    \cup {<<Item(2, 1), Item(p, 1)>> : p \in IdInputs(products)}

ResolutionInputs == {Null, "", "fixed"}

ProductUpdateInputs ==
    {[price_kzt |-> p] : p \in PriceValues}
    \cup {[is_active |-> a] : a \in BOOLEAN}
    \cup {[price_kzt |-> p, is_active |-> a] : p \in PriceValues, a \in BOOLEAN}

ComplaintInputs ==
    [order_id : IdInputs(orders), sales_rep_id : {5, 1}, manager_id : {4, 5}]

Init ==
    /\ users = WorldUsers
    /\ suppliers = WorldSuppliers
    /\ consumers = WorldConsumers
    /\ staff = WorldStaff
    /\ products = WorldProducts
    /\ links = <<>>
    /\ orders = <<>>
    /\ complaints = <<>>
    /\ resp = NoResponse
    /\ reqs = {}

(***************************************************************************)
(* Status lifecycles: consumer 1 links with supplier 1, orders and         *)
(* complains about the order; every user sends every status update.        *)
(***************************************************************************)
Next ==
    \/ CreateLinkRequest(1, 1)
    \/ \E u \in Callers, l \in IdInputs(links), st \in LinkStatus :
            UpdateLinkStatus(u, l, st)
    \/ CreateOrder(1, 1, <<Item(1, 1)>>)
    \/ \E u \in Callers, o \in IdInputs(orders), st \in OrderStatus :
            UpdateOrderStatus(u, o, st)
    \/ CreateComplaint(1, [order_id |-> 1, sales_rep_id |-> 5, manager_id |-> 4])
    \/ \E u \in Callers, c \in IdInputs(complaints), st \in ComplaintStatus,
          r \in ResolutionInputs : UpdateComplaintStatus(u, c, st, r)
    \/ CloseSession

Spec == Init /\ [][Next]_vars

(***************************************************************************)
(* Access: every user reads the link, the orders and the complaints of     *)
(* consumer 1 and supplier 1 and tries to move the link and the orders on; *)
(* the supplier's manager and sales rep can lose their staff rows.         *)
(***************************************************************************)
NextAccess ==
    \/ CreateLinkRequest(1, 1)
    \/ \E u \in Callers, l \in IdInputs(links), st \in {"accepted", "blocked"} :
            UpdateLinkStatus(u, l, st)
    \/ CreateOrder(1, 1, <<Item(1, 1)>>)
    \/ \E u \in Callers, o \in IdInputs(orders), st \in {"accepted", "pending"} :
            UpdateOrderStatus(u, o, st)
    \/ \E body \in ComplaintInputs : CreateComplaint(1, body)
    \/ \E u \in Callers, o \in IdInputs(orders) : GetOrder(u, o)
    \/ \E u \in Callers, l \in IdInputs(links) : GetLink(u, l)
    \/ \E u \in Callers, c \in IdInputs(complaints) : GetComplaint(u, c)
    \/ \E row \in {r \in staff : r.user_id \in {4, 5}} : DeleteSupplierStaff(row)
    \/ CloseSession

SpecAccess == Init /\ [][NextAccess]_vars

(***************************************************************************)
(* Ordering: consumer 1 links with supplier 1, whose owner and manager     *)
(* decide on the link; consumer 1 orders from it with every body, every    *)
(* consumer orders one unit from every supplier, and staff edit product 1. *)
(***************************************************************************)
NextOrders ==
    \/ CreateLinkRequest(1, 1)
    \/ \E u \in {3, 4}, l \in DOMAIN links, st \in LinkStatus :
            UpdateLinkStatus(u, l, st)
    \/ \E items \in OrderItemsInputs : CreateOrder(1, 1, items)
    \/ \E u \in {1, 2, 3}, s \in IdInputs(suppliers) :
            CreateOrder(u, s, <<Item(1, 1)>>)
    \/ \E u \in {3, 5, 6}, p \in {1, Cardinality(DOMAIN products) + 1},
          body \in ProductUpdateInputs : UpdateProduct(u, p, body)
    \/ CloseSession

SpecOrders == Init /\ [][NextOrders]_vars

(***************************************************************************)
(* Concurrent status updates of one link and one order.                    *)
(***************************************************************************)
NextConc ==
    \/ CreateLinkRequest(1, 1)
    \/ CreateOrder(1, 1, <<Item(1, 1)>>)
    \/ CloseSession
    \/ \E u \in {3, 5}, l \in DOMAIN links, st \in LinkStatus :
            BeginUpdateLinkStatus(u, l, st)
    \/ \E r \in reqs : CommitUpdateLinkStatus(r)
    \/ \E u \in {3, 5}, o \in DOMAIN orders, st \in OrderStatus :
            BeginUpdateOrderStatus(u, o, st)
    \/ \E r \in reqs : CommitUpdateOrderStatus(r)
    \/ \E r \in reqs : ReturnResponse(r)

SpecConc == Init /\ [][NextConc]_vars

(***************************************************************************)
(* Failing requests: consumer 1 and supplier 1 with every order body, a    *)
(* product that is switched off and on, and status updates by the          *)
(* consumer, the owner, the manager and the sales rep.                     *)
(***************************************************************************)
NextErrors ==
    \/ \E u \in {1, 3}, s \in {1, Cardinality(DOMAIN suppliers) + 1} :
            CreateLinkRequest(u, s)
    \/ \E u \in {1, 3}, l \in IdInputs(links), st \in LinkStatus :
            UpdateLinkStatus(u, l, st)
    \/ \E items \in FailingOrderInputs : CreateOrder(1, 1, items)
    \/ \E u \in {2, 3} : CreateOrder(u, 1, <<Item(1, 1)>>)
    \/ \E a \in BOOLEAN : UpdateProduct(3, 1, [is_active |-> a])
    \/ \E u \in {1, 3}, o \in IdInputs(orders), st \in {"accepted", "completed"} :
            UpdateOrderStatus(u, o, st)
    \/ \E u \in {1, 2}, body \in ComplaintInputs : CreateComplaint(u, body)
    \/ \E u \in {1, 5}, c \in IdInputs(complaints), st \in {"resolved", "open"},
          r \in {Null, "fixed"} : UpdateComplaintStatus(u, c, st, r)
    \/ CloseSession

SpecErrors == Init /\ [][NextErrors]_vars

(***************************************************************************)
(* A directory whose staff rows do not follow the users' roles.  No        *)
(* endpoint writes supplier_staff and staff_role is a free String(100), so *)
(* the table holds what was put there: user 9 has role supplier_sales and  *)
(* a manager row, user 10 has role supplier_manager and a row with         *)
(* staff_role owner, user 11 is an admin with a sales row, and two owning  *)
(* users have staff rows of their own supplier: user 3 (supplier_owner)    *)
(* and user 12 (supplier_manager, owner of supplier 3).  User 13 has role  *)
(* supplier_owner, no Supplier row and a manager row of supplier 1.        *)
(***************************************************************************)
RolesUsers ==
    WorldUsers \o <<"supplier_sales", "supplier_manager", "admin",
                    "supplier_manager", "supplier_owner">>

RolesSuppliers == WorldSuppliers @@ (3 :> 12)

RolesStaff ==
    WorldStaff \cup
    {StaffRow(9, 1, "manager"), StaffRow(10, 1, "owner"), StaffRow(11, 1, "sales"),
     StaffRow(3, 1, "manager"), StaffRow(3, 1, "owner"),
     StaffRow(12, 3, "manager"), StaffRow(12, 3, "owner"),
     StaffRow(13, 1, "manager")}

RolesProducts == WorldProducts @@ (4 :> ProductRow(3, 750000, TRUE, 500))

InitRoles ==
    /\ users = RolesUsers
    /\ suppliers = RolesSuppliers
    /\ consumers = WorldConsumers
    /\ staff = RolesStaff
    /\ products = RolesProducts
    /\ links = <<>>
    /\ orders = <<>>
    /\ complaints = <<>>
    /\ resp = NoResponse
    /\ reqs = {}

\* Status and product updates sent by the users of that directory.
NextRoles ==
    \/ \E s \in {1, 3} : CreateLinkRequest(1, s)
    \/ \E u \in {3, 9, 10, 12}, l \in DOMAIN links, st \in {"accepted", "denied"} :
            UpdateLinkStatus(u, l, st)
    \/ CreateOrder(1, 1, <<Item(1, 1)>>)
    \/ \E u \in {3, 9, 10}, o \in DOMAIN orders, st \in {"accepted", "rejected"} :
            UpdateOrderStatus(u, o, st)
    \/ \E u \in {3, 9, 10, 12}, p \in {2, 4} :
            UpdateProduct(u, p, [is_active |-> FALSE])
    \/ CloseSession

SpecRoles == InitRoles /\ [][NextRoles]_vars

\* Order lists and single orders read by every user of that directory.
NextLists ==
    \/ CreateLinkRequest(1, 1)
    \/ \E l \in DOMAIN links : UpdateLinkStatus(3, l, "accepted")
    \/ CreateOrder(1, 1, <<Item(1, 1)>>)
    \/ \E o \in DOMAIN orders : UpdateOrderStatus(3, o, "accepted")
    \/ \E u \in Callers, f \in {Null, "pending"} : GetOrders(u, f)
    \/ \E u \in Callers, o \in IdInputs(orders) : GetOrder(u, o)
    \/ CloseSession

SpecLists == InitRoles /\ [][NextLists]_vars

\* Complaints of consumer 1 that name users of that directory, status
\* updates of the complaints, and the removal of a named user's staff row.
NextNamed ==
    \/ CreateLinkRequest(1, 1)
    \/ \E l \in DOMAIN links : UpdateLinkStatus(3, l, "accepted")
    \/ CreateOrder(1, 1, <<Item(1, 1)>>)
    \/ \E u \in {1, 2},
          body \in [order_id : DOMAIN orders, sales_rep_id : {4, 5, 11},
                    manager_id : {4, 5, 10}] :
            CreateComplaint(u, body)
    \/ \E u \in {1, 3, 5, 10, 11}, c \in IdInputs(complaints),
          st \in {"escalated", "resolved"} :
            UpdateComplaintStatus(u, c, st, "fixed")
    \/ \E row \in {r \in staff : r.user_id \in {5, 11}} : DeleteSupplierStaff(row)
    \/ CloseSession

SpecNamed == InitRoles /\ [][NextNamed]_vars

(***************************************************************************)
(* Catalog browsing: consumers 1 and 2 link with supplier 1, the owner     *)
(* decides on the links and switches products on and off, and the          *)
(* consumers and the owner ask for the catalogs.                           *)
(***************************************************************************)
NextCatalog ==
    \/ \E u \in {1, 2} : CreateLinkRequest(u, 1)
    \/ \E l \in DOMAIN links, st \in LinkStatus : UpdateLinkStatus(3, l, st)
    \/ \E p \in {1, 3}, a \in BOOLEAN : UpdateProduct(3, p, [is_active |-> a])
    \/ \E u \in {1, 2, 3}, s \in IdInputs(suppliers) : GetCatalog(u, s)
    \/ CloseSession

SpecCatalog == Init /\ [][NextCatalog]_vars

(***************************************************************************)
(* Concurrent status updates of the orders of consumer 1, sent by the      *)
(* owner of supplier 1.                                                    *)
(***************************************************************************)
NextOrderRace ==
    \/ CreateLinkRequest(1, 1)
    \/ \E l \in DOMAIN links : UpdateLinkStatus(3, l, "accepted")
    \/ CreateOrder(1, 1, <<Item(1, 1)>>)
    \/ CloseSession
    \/ \E o \in DOMAIN orders, st \in OrderStatus : BeginUpdateOrderStatus(3, o, st)
    \/ \E r \in reqs : CommitUpdateOrderStatus(r)
    \/ \E r \in reqs : ReturnResponse(r)

SpecOrderRace == Init /\ [][NextOrderRace]_vars

(***************************************************************************)
(* Blocking: consumer 1 asks for a link with supplier 1, orders and        *)
(* browses the catalog, while the owner and the manager of supplier 1      *)
(* decide on the link in concurrently handled requests.                    *)
(***************************************************************************)
NextBlock ==
    \/ CreateLinkRequest(1, 1)
    \/ CreateOrder(1, 1, <<Item(1, 1)>>)
    \/ GetCatalog(1, 1)
    \/ CloseSession
    \/ \E u \in {3, 4}, l \in DOMAIN links, st \in LinkStatus :
            BeginUpdateLinkStatus(u, l, st)
    \/ \E r \in reqs : CommitUpdateLinkStatus(r)
    \/ \E r \in reqs : ReturnResponse(r)

SpecBlock == Init /\ [][NextBlock]_vars

(***************************************************************************)
(* Orders of consumer 1 placed while the owner of supplier 1 decides on    *)
(* the link, in concurrently handled requests.                             *)
(***************************************************************************)
NextOrderLink ==
    \/ CreateLinkRequest(1, 1)
    \/ CloseSession
    \/ \E l \in DOMAIN links, st \in {"accepted", "blocked"} :
            BeginUpdateLinkStatus(3, l, st)
    \/ \E r \in reqs : CommitUpdateLinkStatus(r)
    \/ \E n \in 1..MaxInFlight : BeginCreateOrder(n, 1, 1, <<Item(1, 1)>>)
    \/ \E r \in reqs : CommitCreateOrder(r)
    \/ \E r \in reqs : ReturnResponse(r)

SpecOrderLink == Init /\ [][NextOrderLink]_vars

(***************************************************************************)
(* Concurrent link requests of consumers 1 and 2 to supplier 1 and         *)
(* concurrent decisions of the supplier's owner on them.                   *)
(***************************************************************************)
NextLinks ==
    \/ \E n \in 1..MaxInFlight, u \in {1, 2} : BeginCreateLinkRequest(n, u, 1)
    \/ \E r \in reqs : CommitCreateLinkRequest(r)
    \/ \E l \in DOMAIN links, st \in LinkStatus : BeginUpdateLinkStatus(3, l, st)
    \/ \E r \in reqs : CommitUpdateLinkStatus(r)
    \/ \E r \in reqs : ReturnResponse(r)

SpecLinks == Init /\ [][NextLinks]_vars

(***************************************************************************)
(* Vocabulary of the properties                                            *)
(***************************************************************************)
HandledUpdate(op) ==
    /\ resp'.op = op
    /\ resp'.kind \in {"ok", "InvalidTransition", "MissingRequiredField"}

\* Owner or manager standing of a user with respect to one supplier: the
\* supplier's owning user, or a staff row of that supplier with an owner or
\* manager staff_role.
HasAuthority(user, supplier_id) ==
    \/ /\ supplier_id \in DOMAIN suppliers
       /\ suppliers[supplier_id] = user
    \/ \E r \in staff : /\ r.user_id = user
                        /\ r.supplier_id = supplier_id
                        /\ r.staff_role \in {"manager", "owner"}

OnlySales(user, supplier_id) ==
    /\ ~ HasAuthority(user, supplier_id)
    /\ \E r \in staff : /\ r.user_id = user
                        /\ r.supplier_id = supplier_id
                        /\ r.staff_role = "sales"

AuthorityElsewhere(user, supplier_id) ==
    /\ ~ HasAuthority(user, supplier_id)
    /\ \E s \in DOMAIN suppliers : s # supplier_id /\ HasAuthority(user, s)

IsConsumerOf(user, consumer_id) ==
    consumer_id \in DOMAIN consumers /\ consumers[consumer_id] = user

(***************************************************************************)
(* C1: for Link, Order and Complaint, a status update that reaches the     *)
(* validator passes it exactly when (current, target) is an edge of the    *)
(* entity's table; every other pair, every self-transition included, is    *)
(* rejected as InvalidTransition.                                          *)
(***************************************************************************)
C1_LinkEdges ==
    {<<"pending", "accepted">>, <<"pending", "denied">>,
     <<"accepted", "blocked">>, <<"denied", "pending">>}

C1_OrderEdges ==
    {<<"pending", "accepted">>, <<"pending", "rejected">>,
     <<"accepted", "in_progress">>, <<"in_progress", "completed">>}

C1_ComplaintEdges ==
    {<<"open", "escalated">>, <<"open", "resolved">>,
     <<"escalated", "resolved">>}

C1_ValidatorMatchesTables ==
    [][/\ HandledUpdate("update_link_status") =>
            (resp'.kind # "InvalidTransition"
                <=> <<links[resp'.id].status, resp'.body.status>> \in C1_LinkEdges)
       /\ HandledUpdate("update_order_status") =>
            (resp'.kind # "InvalidTransition"
                <=> <<orders[resp'.id].status, resp'.body.status>> \in C1_OrderEdges)
       /\ HandledUpdate("update_complaint_status") =>
            (resp'.kind # "InvalidTransition"
                <=> <<complaints[resp'.id].status, resp'.body.status>>
                        \in C1_ComplaintEdges)]_vars

\* A self-transition of a link was rejected.
C1_Witness ==
    /\ resp.op = "update_link_status"
    /\ resp.kind = "InvalidTransition"
    /\ resp.body.status = links[resp.id].status

C7_ResolveRequest ==
    /\ resp'.op = "update_complaint_status"
    /\ resp'.id \in DOMAIN complaints
    /\ resp'.body.status = "resolved"
    /\ resp'.user \in {complaints[resp'.id].sales_rep_id,
                       complaints[resp'.id].manager_id}
    /\ complaints[resp'.id].status \in {"open", "escalated"}

C7_ResolutionRequired ==
    [][C7_ResolveRequest =>
        IF resp'.body.resolution \in {Null, ""}
        THEN /\ resp'.kind = "MissingRequiredField"
             /\ complaints' = complaints
        ELSE /\ resp'.kind = "ok"
             /\ complaints'[resp'.id].status = "resolved"
             /\ complaints'[resp'.id].resolution = resp'.body.resolution]_vars

\* An escalated complaint stayed escalated when its manager resolved it with
\* an empty resolution.
C7_Witness ==
    /\ resp.op = "update_complaint_status"
    /\ resp.kind = "MissingRequiredField"
    /\ resp.body.resolution = ""
    /\ complaints[resp.id].status = "escalated"
    /\ complaints[resp.id].resolution = Null
    /\ resp.user = complaints[resp.id].manager_id

(***************************************************************************)
(* C8: update_order_status and update_link_status succeed only for a       *)
(* caller with owner or manager authority over the supplier of the row; a  *)
(* consumer (the one named on the row included), a user with only sales    *)
(* authority and an owner or manager of another supplier get               *)
(* PermissionDenied, and the row keeps its status.                         *)
(***************************************************************************)
C8_Denied(user, supplier_id) ==
    \/ users[user] = "consumer"
    \/ OnlySales(user, supplier_id)
    \/ AuthorityElsewhere(user, supplier_id)

C8_StatusUpdateNeedsAuthority ==
    [][/\ (resp'.op = "update_order_status" /\ resp'.id \in DOMAIN orders) =>
            /\ resp'.kind = "ok"
                    => HasAuthority(resp'.user, orders[resp'.id].supplier_id)
            /\ C8_Denied(resp'.user, orders[resp'.id].supplier_id)
                    => resp'.kind = "PermissionDenied" /\ orders' = orders
       /\ (resp'.op = "update_link_status" /\ resp'.id \in DOMAIN links) =>
            /\ resp'.kind = "ok"
                    => HasAuthority(resp'.user, links[resp'.id].supplier_id)
            /\ C8_Denied(resp'.user, links[resp'.id].supplier_id)
                    => resp'.kind = "PermissionDenied" /\ links' = links]_vars

\* The manager of another supplier, who is sales staff of this one, was
\* denied a valid transition of a pending order.
C8_Witness ==
    /\ resp.op = "update_order_status"
    /\ resp.id \in DOMAIN orders
    /\ resp.kind = "PermissionDenied"
    /\ AuthorityElsewhere(resp.user, orders[resp.id].supplier_id)
    /\ OnlySales(resp.user, orders[resp.id].supplier_id)
    /\ orders[resp.id].status = "pending"
    /\ resp.body.status = "accepted"

(***************************************************************************)
(* C9: get_order and get_link return the row only to the consumer named on *)
(* it or to a user with owner or manager authority over its supplier;      *)
(* every other user gets PermissionDenied.                                 *)
(***************************************************************************)
C9_MayView(user, row) ==
    \/ IsConsumerOf(user, row.consumer_id)
    \/ HasAuthority(user, row.supplier_id)

C9_ViewNeedsOwnershipOrAuthority ==
    /\ (resp.op = "get_order" /\ resp.id \in DOMAIN orders) =>
            /\ resp.kind = "ok" => C9_MayView(resp.user, orders[resp.id])
            /\ ~ C9_MayView(resp.user, orders[resp.id])
                    => resp.kind = "PermissionDenied"
    /\ (resp.op = "get_link" /\ resp.id \in DOMAIN links) =>
            /\ resp.kind = "ok" => C9_MayView(resp.user, links[resp.id])
            /\ ~ C9_MayView(resp.user, links[resp.id])
                    => resp.kind = "PermissionDenied"

\* Another consumer was denied an order that its own consumer can read.
C9_Witness ==
    /\ resp.op = "get_order"
    /\ resp.id \in DOMAIN orders
    /\ resp.kind = "PermissionDenied"
    /\ users[resp.user] = "consumer"
    /\ ~ IsConsumerOf(resp.user, orders[resp.id].consumer_id)

(***************************************************************************)
(* C10: get_complaint succeeds exactly for the complaint's consumer and    *)
(* for the users named as its sales rep or manager, whatever their role    *)
(* and whether or not they still have a supplier_staff row.                *)
(***************************************************************************)
C10_ComplaintViewByIdentity ==
    (resp.op = "get_complaint" /\ resp.id \in DOMAIN complaints) =>
        (resp.kind = "ok" <=>
            \/ IsConsumerOf(resp.user, complaints[resp.id].consumer_id)
            \/ resp.user = complaints[resp.id].sales_rep_id
            \/ resp.user = complaints[resp.id].manager_id)

\* The sales rep read the complaint after losing every staff row.
C10_Witness ==
    /\ resp.op = "get_complaint"
    /\ resp.id \in DOMAIN complaints
    /\ resp.kind = "ok"
    /\ resp.user = complaints[resp.id].sales_rep_id
    /\ ~ \E r \in staff : r.user_id = resp.user

(***************************************************************************)
(* C4: create_order by a consumer for supplier s, with a well-formed body, *)
(* succeeds only if an accepted Link joins the consumer and s; when that   *)
(* Link is pending, denied, blocked or absent the request fails with       *)
(* PermissionDenied (not NotFound) and no order and no order item is       *)
(* stored.                                                                 *)
(***************************************************************************)
C4_LinkStatuses(consumer_id, supplier_id) ==
    {links[l].status : l \in {k \in DOMAIN links :
                                /\ links[k].consumer_id = consumer_id
                                /\ links[k].supplier_id = supplier_id}}

C4_Request ==
    /\ resp'.op = "create_order"
    /\ users[resp'.user] = "consumer"
    /\ \E c \in DOMAIN consumers : consumers[c] = resp'.user
    /\ resp'.body.supplier_id \in DOMAIN suppliers
    /\ Len(resp'.body.items) >= 1
    /\ \A i \in 1..Len(resp'.body.items) : resp'.body.items[i].qty >= 1

RECURSIVE C5_Sum(_, _)
C5_Sum(rows, n) ==
    IF n = 0 THEN 0
    ELSE C5_Sum(rows, n - 1) + rows[n].qty * rows[n].unit_price_kzt

C5_OrderSnapshotsPrices ==
    [][(resp'.op = "create_order" /\ resp'.kind = "ok") =>
        /\ Len(orders') = Len(orders) + 1
        /\ \A o \in DOMAIN orders : orders'[o] = orders[o]
        /\ LET order == orders'[Len(orders')]
               items == resp'.body.items
           IN /\ order.status = "pending"
              /\ order.supplier_id = resp'.body.supplier_id
              /\ IsConsumerOf(resp'.user, order.consumer_id)
              /\ Len(order.items) = Len(items)
              /\ \A i \in 1..Len(items) :
                    /\ order.items[i].product_id = items[i].product_id
                    /\ order.items[i].qty = items[i].qty
                    /\ order.items[i].unit_price_kzt
                            = products[items[i].product_id].price_kzt
              /\ order.total_kzt = C5_Sum(order.items, Len(order.items))]_vars

\* An order of two lines, one of them of several units, after a price
\* change.
C5_Witness ==
    /\ resp.op = "create_order"
    /\ resp.kind = "ok"
    /\ Len(resp.body.items) = 2
    /\ resp.body.items[1].qty > 1
    /\ resp.body.items[1].product_id # resp.body.items[2].product_id
    /\ products # WorldProducts
    /\ Len(orders) = 1
    /\ orders[1].total_kzt > 0

(***************************************************************************)
(* C6: an update of a product, its price included, changes no              *)
(* unit_price_kzt of an existing order item and no total_kzt of an         *)
(* existing order, as get_order returns them.                              *)
(***************************************************************************)
C6_PriceChangeKeepsOrders ==
    [][resp'.op = "update_product" =>
        \A o \in DOMAIN orders :
            /\ o \in DOMAIN orders'
            /\ OrderResponse(o)'.items = OrderResponse(o).items
            /\ OrderResponse(o)'.total_kzt = OrderResponse(o).total_kzt]_vars

\* The price of a product changed after it was ordered.
C6_Witness ==
    /\ resp.op = "update_product"
    /\ resp.kind = "ok"
    /\ "price_kzt" \in DOMAIN resp.body
    /\ \E o \in DOMAIN orders : \E i \in DOMAIN orders[o].items :
            /\ orders[o].items[i].product_id = resp.id
            /\ orders[o].items[i].unit_price_kzt # products[resp.id].price_kzt
            /\ OrderResponse(o).items[i].unit_price_kzt
                    = orders[o].items[i].unit_price_kzt

(***************************************************************************)
(* C3: of two concurrent status updates of the same pending Order or Link  *)
(* with different targets at most one succeeds: a successful update of a   *)
(* row it read as pending writes while the persisted status is still       *)
(* pending (or already its own target), never over another target that     *)
(* was committed after it validated.                                       *)
(***************************************************************************)
C3_PersistedStatus(r) ==
    IF r.op = "update_order_status" THEN orders[r.id].status
    ELSE links[r.id].status

C3_AtMostOneOfTwoSucceeds ==
    [][\A r \in reqs' \ reqs :
            (r.pc = "done" /\ r.kind = "ok" /\ r.seen = "pending")
                => C3_PersistedStatus(r) \in {"pending", r.status}]_vars

(***************************************************************************)
(* C13: create_order checks, in this order, (1) an accepted Link between   *)
(* the caller and the supplier, (2) a non-empty item list with positive    *)
(* quantities, (3) that every product exists, belongs to the supplier and  *)
(* is active, and reports the first failure: without an accepted link the  *)
(* answer is PermissionDenied even when a quantity is <= 0, and a quantity *)
(* <= 0 anywhere in the list gives ValidationError before any product      *)
(* failure.                                                                *)
(***************************************************************************)
C13_Request ==
    /\ resp'.op = "create_order"
    /\ users[resp'.user] = "consumer"
    /\ \E c \in DOMAIN consumers : consumers[c] = resp'.user
    /\ resp'.body.supplier_id \in DOMAIN suppliers

C13_Expected(consumer_id, supplier_id, items) ==
    IF "accepted" \notin C4_LinkStatuses(consumer_id, supplier_id)
    THEN {"PermissionDenied"}
    ELSE IF Len(items) = 0 \/ \E i \in 1..Len(items) : items[i].qty <= 0
    THEN {"ValidationError"}
    ELSE IF \E i \in 1..Len(items) :
                \/ items[i].product_id \notin DOMAIN products
                \/ products[items[i].product_id].supplier_id # supplier_id
                \/ ~ products[items[i].product_id].is_active
    THEN {"NotFound", "ValidationError"}
    ELSE {"ok"}

C13_PreconditionOrder ==
    [][C13_Request =>
        resp'.kind \in C13_Expected(
            CHOOSE c \in DOMAIN consumers : consumers[c] = resp'.user,
            resp'.body.supplier_id, resp'.body.items)]_vars

(***************************************************************************)
(* C17: for a consumer without an accepted Link with supplier id s,        *)
(* create_order answers PermissionDenied whether or not a Supplier with    *)
(* id s exists.                                                            *)
(***************************************************************************)
C17_SameErrorForUnknownSupplier ==
    [][(/\ resp'.op = "create_order"
        /\ users[resp'.user] = "consumer"
        /\ \E c \in DOMAIN consumers : consumers[c] = resp'.user
        /\ OrderCreateValid(resp'.body.items)
        /\ "accepted" \notin C4_LinkStatuses(
                CHOOSE c \in DOMAIN consumers : consumers[c] = resp'.user,
                resp'.body.supplier_id))
            => resp'.kind = "PermissionDenied"]_vars

(***************************************************************************)
(* C16: get_order, get_link, get_complaint, update_order_status,           *)
(* update_link_status and update_complaint_status answer NotFound for an   *)
(* id that names no row, whatever the caller's role.                       *)
(***************************************************************************)
C16_Table(op) ==
    CASE op \in {"get_order", "update_order_status"} -> DOMAIN orders
      [] op \in {"get_link", "update_link_status"} -> DOMAIN links
      [] op \in {"get_complaint", "update_complaint_status"} -> DOMAIN complaints
      [] OTHER -> {}

C16_NotFoundBeforeAuthorization ==
    (/\ resp.op \in {"get_order", "get_link", "get_complaint",
                     "update_order_status", "update_link_status",
                     "update_complaint_status"}
     /\ resp.id \notin C16_Table(resp.op))
        => resp.kind = "NotFound"

(***************************************************************************)
(* C15: a successful update_order_status or update_link_status changes the *)
(* status of the targeted row and nothing else: its consumer, supplier,    *)
(* total and items, every other order, link and complaint and every        *)
(* product (stock included) stay as they were; a successful                *)
(* update_complaint_status changes the status and, only when resolution    *)
(* text is given, the resolution.                                          *)
(***************************************************************************)
C15_Succeeded(op) == resp'.op = op /\ resp'.kind = "ok"

C14_Ops ==
    {"create_order", "create_link_request", "create_complaint",
     "update_order_status", "update_link_status", "update_complaint_status"}

C14_ErrorKinds ==
    {"PermissionDenied", "NotFound", "Conflict", "ValidationError",
     "InvalidTransition", "MissingRequiredField", "InternalError"}

C14_FailuresChangeNothing ==
    [][(resp'.op \in C14_Ops /\ resp'.kind # "ok") =>
            /\ resp'.kind \in C14_ErrorKinds
            /\ links' = links
            /\ orders' = orders
            /\ complaints' = complaints]_vars

\* An order over an accepted link failed at its second line, after a first
\* line that passed every check, and no order was stored.
C14_Witness ==
    /\ resp.op = "create_order"
    /\ resp.kind = "ValidationError"
    /\ Len(resp.body.items) = 2
    /\ OrderCreateValid(resp.body.items)
    /\ ItemsOutcome(resp.body.supplier_id, <<resp.body.items[1]>>, 1) = "ok"
    /\ \E l \in DOMAIN links : links[l].status = "accepted"
    /\ orders = <<>>

(***************************************************************************)
(* C12: under every interleaving of create_link_request and                *)
(* update_link_status there is at most one Link per (consumer_id,          *)
(* supplier_id); a create_link_request that finds a Link of its pair is    *)
(* rejected with Conflict, and no request adds a second row of a pair.     *)
(***************************************************************************)
C12_PairOf(l) == <<links[l].consumer_id, links[l].supplier_id>>

C12_AtMostOneLinkPerPair ==
    \A l1, l2 \in DOMAIN links : C12_PairOf(l1) = C12_PairOf(l2) => l1 = l2

\* A create_link_request that ends in this step, for a pair that had a Link.
C12_EndsForLinkedPair(r) ==
    /\ r \in reqs' \ reqs
    /\ r.op = "create_link_request"
    /\ r.pc = "done"
    /\ \E l \in DOMAIN links :
            /\ IsConsumerOf(r.user, links[l].consumer_id)
            /\ links[l].supplier_id = r.id

C12_OneLinkPerPair ==
    [][/\ C12_AtMostOneLinkPerPair'
       /\ \A l \in DOMAIN links :
            l \in DOMAIN links' /\ C12_PairOf(l)' = C12_PairOf(l)
       /\ \A r \in reqs' :
            C12_EndsForLinkedPair(r) => r.kind = "Conflict" /\ links' = links]_vars

(***************************************************************************)
(* C11: update_complaint_status is open to exactly the users whose id is   *)
(* the complaint's sales_rep_id or manager_id, by identity alone: whatever *)
(* their global role and whether or not they still have a SupplierStaff    *)
(* row; every other user, the complaint's consumer included, is denied.    *)
(***************************************************************************)
C11_Named(user, complaint_id) ==
    \/ complaints[complaint_id].sales_rep_id = user
    \/ complaints[complaint_id].manager_id = user

C11_NamedUsersMayUpdate ==
    (resp.op = "update_complaint_status" /\ resp.id \in DOMAIN complaints)
        => (resp.kind # "PermissionDenied" <=> C11_Named(resp.user, resp.id))

(***************************************************************************)
(* C18: authority over a supplier does not depend on the global role: a    *)
(* user with a SupplierStaff row (user, s, manager), or who is Supplier    *)
(* s's user_id, is not denied the status update of s's orders and links.   *)
(***************************************************************************)
C18_SupplierOfTarget ==
    IF resp.op = "update_order_status" THEN orders[resp.id].supplier_id
    ELSE links[resp.id].supplier_id

C18_TargetExists ==
    \/ resp.op = "update_order_status" /\ resp.id \in DOMAIN orders
    \/ resp.op = "update_link_status" /\ resp.id \in DOMAIN links

C18_AuthorityWhateverRole ==
    (/\ C18_TargetExists
     /\ \/ suppliers[C18_SupplierOfTarget] = resp.user
        \/ StaffRow(resp.user, C18_SupplierOfTarget, "manager") \in staff)
        => resp.kind # "PermissionDenied"

(***************************************************************************)
(* C19: for a user who is Supplier s's user_id and also has SupplierStaff  *)
(* rows for s, of any staff_role and in any number, the authority check    *)
(* finds the owner and raises no error: an update of s's links, orders or  *)
(* products that reaches the check is neither denied nor failed by it.     *)
(***************************************************************************)
C19_UpdateOps == {"update_order_status", "update_link_status", "update_product"}

C19_Table(op) ==
    CASE op = "update_order_status" -> orders
      [] op = "update_link_status" -> links
      [] OTHER -> products

C19_OwnerWithStaffRows(user, supplier_id) ==
    /\ supplier_id \in DOMAIN suppliers
    /\ suppliers[supplier_id] = user
    /\ StaffRows(user, supplier_id) # {}

C19_OwnerTakesPrecedence ==
    /\ \A u \in DOMAIN users, s \in DOMAIN suppliers :
            C19_OwnerWithStaffRows(u, s) => IsSupplierOwnerOrManager(u, s) = "yes"
    /\ (/\ resp.op \in C19_UpdateOps
        /\ resp.id \in DOMAIN C19_Table(resp.op)
        /\ users[resp.user] \in {"supplier_owner", "supplier_manager"}
        /\ C19_OwnerWithStaffRows(resp.user, C19_Table(resp.op)[resp.id].supplier_id))
            => resp.kind \notin {"PermissionDenied", "InternalError"}

\* User 12 owns supplier 3, has role supplier_manager and two staff rows of
\* supplier 3 that the staff query would match, and has updated product 4.
C19_Witness ==
    /\ resp.op = "update_product"
    /\ resp.kind = "ok"
    /\ C19_OwnerWithStaffRows(resp.user, products[resp.id].supplier_id)
    /\ users[resp.user] = "supplier_manager"
    /\ Cardinality(ManagerStaffRows(resp.user, products[resp.id].supplier_id)) > 1

(***************************************************************************)
(* C20: a user who is not the supplier's owning user and whose staff rows  *)
(* for the supplier have no staff_role that is exactly manager or sales    *)
(* has no authority: the user's updates of the supplier's orders, links    *)
(* and products are denied.                                                *)
(***************************************************************************)
C20_RecognizedRows(user, supplier_id) ==
    {r \in StaffRows(user, supplier_id) : r.staff_role \in {"manager", "sales"}}

C20_UnrecognizedStaffRoleDenied ==
    (/\ resp.op \in C19_UpdateOps
     /\ resp.id \in DOMAIN C19_Table(resp.op)
     /\ suppliers[C19_Table(resp.op)[resp.id].supplier_id] # resp.user
     /\ C20_RecognizedRows(resp.user, C19_Table(resp.op)[resp.id].supplier_id) = {})
        => resp.kind = "PermissionDenied"

(***************************************************************************)
(* C21: a create_link_request of a consumer whose Link with the supplier   *)
(* is denied is not rejected: it moves that row from denied to pending     *)
(* and adds no row.                                                        *)
(***************************************************************************)
C21_DeniedLinkOf(user, supplier_id) ==
    {l \in DOMAIN links : /\ IsConsumerOf(user, links[l].consumer_id)
                          /\ links[l].supplier_id = supplier_id
                          /\ links[l].status = "denied"}

C21_ReRequestReusesDeniedRow ==
    [][(/\ resp'.op = "create_link_request"
        /\ C21_DeniedLinkOf(resp'.user, resp'.body.supplier_id) # {})
        => /\ resp'.kind = "ok"
           /\ Len(links') = Len(links)
           /\ \A l \in C21_DeniedLinkOf(resp'.user, resp'.body.supplier_id) :
                    links'[l].status = "pending"]_vars

(***************************************************************************)
(* C22: create_complaint succeeds only if the caller is the consumer who   *)
(* owns the referenced order, sales_rep_id has a SupplierStaff row of the  *)
(* order's supplier with staff_role sales, and manager_id has one with     *)
(* staff_role manager; the complaint is stored open with a null            *)
(* resolution.                                                             *)
(***************************************************************************)
C22_Created == complaints[Len(complaints)]

C22_ComplaintNeedsMatchingStaff ==
    (resp.op = "create_complaint" /\ resp.kind = "ok") =>
        /\ resp.body.order_id \in DOMAIN orders
        /\ IsConsumerOf(resp.user, orders[resp.body.order_id].consumer_id)
        /\ StaffRow(resp.body.sales_rep_id,
                    orders[resp.body.order_id].supplier_id, "sales") \in staff
        /\ StaffRow(resp.body.manager_id,
                    orders[resp.body.order_id].supplier_id, "manager") \in staff
        /\ C22_Created.status = "open"
        /\ C22_Created.resolution = Null

(***************************************************************************)
(* C23: get_catalog for consumer c and supplier s returns products only    *)
(* while the Link between c and s has status accepted; with a pending,     *)
(* denied or blocked Link, or with none, the answer is PermissionDenied;   *)
(* every product returned is active and has supplier_id s.                 *)
(***************************************************************************)
C23_Request ==
    /\ resp.op = "get_catalog"
    /\ users[resp.user] = "consumer"
    /\ resp.id \in DOMAIN suppliers

C23_LinkStatusesOf(user, supplier_id) ==
    {links[l].status : l \in {k \in DOMAIN links :
                                /\ IsConsumerOf(user, links[k].consumer_id)
                                /\ links[k].supplier_id = supplier_id}}

C23_CatalogNeedsAcceptedLink ==
    /\ C23_Request =>
        /\ resp.kind = "ok" <=> "accepted" \in C23_LinkStatusesOf(resp.user, resp.id)
        /\ resp.kind # "ok" => resp.kind = "PermissionDenied" /\ resp.body = {}
    /\ resp.op = "get_catalog" =>
        /\ resp.kind # "ok" => resp.body = {}
        /\ \A p \in resp.body : /\ products[p].is_active
                                /\ products[p].supplier_id = resp.id

\* Consumer 1 has an accepted link with supplier 1 and got a catalog that
\* leaves out a product of supplier 1 that is switched off.
C23_Witness ==
    /\ C23_Request
    /\ resp.kind = "ok"
    /\ resp.body # {}
    /\ \E p \in DOMAIN products : /\ products[p].supplier_id = resp.id
                                  /\ ~ products[p].is_active
                                  /\ p \notin resp.body

(***************************************************************************)
(* C24: update_complaint_status asks for the resolution text only after    *)
(* the edge has been found valid: a request to resolved without            *)
(* resolution whose (current, resolved) pair is no edge fails with         *)
(* InvalidTransition, and MissingRequiredField is only ever the answer to  *)
(* a request whose pair is an edge.                                        *)
(***************************************************************************)
C24_ReachesValidator ==
    /\ resp'.op = "update_complaint_status"
    /\ resp'.id \in DOMAIN complaints
    /\ resp'.kind \notin {"PermissionDenied", "NotFound"}

C24_EdgeBeforeResolution ==
    [][C24_ReachesValidator =>
        /\ (<<complaints[resp'.id].status, resp'.body.status>>
                \notin C1_ComplaintEdges)
            => resp'.kind = "InvalidTransition"
        /\ resp'.kind = "MissingRequiredField"
            => <<complaints[resp'.id].status, "resolved">> \in C1_ComplaintEdges]_vars

\* The sales rep or the manager asked to resolve a resolved complaint
\* without resolution text and got InvalidTransition.
C24_Witness ==
    /\ resp.op = "update_complaint_status"
    /\ resp.id \in DOMAIN complaints
    /\ resp.kind = "InvalidTransition"
    /\ resp.body.status = "resolved"
    /\ NoResolution(resp.body.resolution)
    /\ complaints[resp.id].status = "resolved"

(***************************************************************************)
(* C26, as stated: in every state reachable by create_complaint and        *)
(* update_complaint_status requests, a Complaint's resolution is non-null  *)
(* if and only if its status is resolved.                                  *)
(***************************************************************************)
C26_ResolutionIffResolved ==
    \A c \in DOMAIN complaints :
        complaints[c].resolution # Null <=> complaints[c].status = "resolved"

(***************************************************************************)
(* C26, amended: in every such state a resolved Complaint has a non-empty  *)
(* resolution and an open Complaint has none; an escalated Complaint has   *)
(* the text of the update that escalated it, if that update carried text,  *)
(* and no stored resolution is empty.                                      *)
(***************************************************************************)
C26_ResolvedHasResolution ==
    \A c \in DOMAIN complaints :
        /\ complaints[c].status = "resolved" => ~ NoResolution(complaints[c].resolution)
        /\ complaints[c].status = "open" => complaints[c].resolution = Null
        /\ complaints[c].resolution # ""

\* A complaint was escalated by a request that carried resolution text,
\* and keeps the text while it is not resolved.
C26_Witness ==
    \E c \in DOMAIN complaints :
        /\ complaints[c].status = "escalated"
        /\ complaints[c].resolution = "fixed"
        /\ resp.op = "update_complaint_status"
        /\ resp.kind = "ok"
        /\ resp.body.status = "escalated"

(***************************************************************************)
(* C25: under every interleaving of concurrently handled status updates,   *)
(* every change of a persisted Order, Link or Complaint status follows an  *)
(* edge of the entity's table; a persisted terminal status is never        *)
(* overwritten by a request that validated against an older status.        *)
(***************************************************************************)
C25_Changed(table, next_table, id) == next_table[id].status # table[id].status

C25_EveryChangeIsAnEdge ==
    [][/\ \A o \in DOMAIN orders :
            C25_Changed(orders, orders', o)
                => <<orders[o].status, orders'[o].status>> \in C1_OrderEdges
       /\ \A l \in DOMAIN links :
            C25_Changed(links, links', l)
                => <<links[l].status, links'[l].status>> \in C1_LinkEdges
       /\ \A c \in DOMAIN complaints :
            C25_Changed(complaints, complaints', c)
                => <<complaints[c].status, complaints'[c].status>>
                        \in C1_ComplaintEdges]_vars

(***************************************************************************)
(* C27: every Order starts pending, and no lifecycle state is skipped: an  *)
(* Order is written in_progress only by a request validated while its      *)
(* persisted status was accepted, and completed only by a request          *)
(* validated while its persisted status was in_progress, so a completed    *)
(* Order has been accepted and then in_progress, and an in_progress Order  *)
(* has been accepted.  Stated over concurrently handled requests.          *)
(***************************************************************************)
C27_Before(status) ==
    CASE status = "accepted"    -> {"pending"}
      [] status = "rejected"    -> {"pending"}
      [] status = "in_progress" -> {"accepted"}
      [] status = "completed"   -> {"in_progress"}
      [] OTHER -> {}

C27_Validated(r) ==
    r.op = "update_order_status" /\ r.pc = "validated"

C27_NoLifecycleStateSkipped ==
    [][/\ \A o \in DOMAIN orders' \ DOMAIN orders : orders'[o].status = "pending"
       /\ \A r \in reqs' \ reqs :
            C27_Validated(r) => /\ r.seen = orders[r.id].status
                                /\ r.seen \in C27_Before(r.status)
       /\ \A o \in DOMAIN orders :
            orders'[o].status # orders[o].status
                => \E r \in reqs : /\ C27_Validated(r)
                                   /\ r.id = o
                                   /\ r.status = orders'[o].status]_vars

\* An order is completed by a request that read it in_progress, while a
\* second request for the same order is still in flight.
C27_Witness ==
    \E r \in reqs :
        /\ r.op = "update_order_status"
        /\ r.pc = "done"
        /\ r.kind = "ok"
        /\ r.status = "completed"
        /\ r.seen = "in_progress"
        /\ orders[r.id].status = "completed"
        /\ \E q \in reqs : q # r /\ q.id = r.id

(***************************************************************************)
(* C28: once the Link between consumer c and supplier s has been blocked,  *)
(* no create_order and no get_catalog for (c, s) succeeds again, whatever  *)
(* create_link_request, update_link_status, create_order and get_catalog   *)
(* requests c and the staff of s send: a blocked Link stays blocked, is    *)
(* the pair's only Link, and is never accepted again.                      *)
(***************************************************************************)
C28_BlockingIsPermanent ==
    [][\A l \in DOMAIN links :
            links[l].status = "blocked" =>
                /\ links'[l].status = "blocked"
                /\ \A k \in DOMAIN links' :
                        C12_PairOf(k)' = C12_PairOf(l) => k = l
                /\ (/\ resp'.op \in {"create_order", "get_catalog"}
                    /\ resp' # resp
                    /\ IsConsumerOf(resp'.user, links[l].consumer_id)
                    /\ (IF resp'.op = "create_order"
                        THEN resp'.body.supplier_id ELSE resp'.id)
                            = links[l].supplier_id)
                    => resp'.kind # "ok"]_vars

(***************************************************************************)
(* C29: list and single-item authorization agree for orders: whatever the  *)
(* user's global role, Supplier row and SupplierStaff rows, every Order    *)
(* that get_orders returns to a user is one that get_order returns to the  *)
(* same user.                                                              *)
(***************************************************************************)
C29_ListedOrdersAreReadable ==
    (resp.op = "get_orders" /\ resp.kind = "ok") =>
        \A o \in resp.body : GetOrderOutcome(resp.user, o) = "ok"

(***************************************************************************)
(* C30: under every interleaving of create_order with update_link_status,  *)
(* every Order is committed while the Link between its consumer and its    *)
(* supplier has status accepted; no Order is persisted after the Link has  *)
(* been blocked by a concurrent request.                                   *)
(***************************************************************************)
C30_OrderCommittedUnderAcceptedLink ==
    [][\A o \in DOMAIN orders' \ DOMAIN orders :
            \E l \in DOMAIN links :
                /\ links[l].consumer_id = orders'[o].consumer_id
                /\ links[l].supplier_id = orders'[o].supplier_id
                /\ links[l].status = "accepted"]_vars

====
